---- MODULE Spec2Model ----
(***************************************************************************)
(* Model of blueprint's SimpleNameInterface (name_interface.go): the flat  *)
(* name registry made of two Go maps, modules (name -> ModuleGroup) and    *)
(* skippedModules (name -> []SkippedModuleInfo).  A ModuleGroup is a       *)
(* handle holding a pointer to a shared moduleGroup record, so a group is  *)
(* modelled by the identity of that record and its mutable name field      *)
(* lives in the heap `name`.                                               *)
(***************************************************************************)
EXTENDS Integers, Sequences, FiniteSets, TLC

\* ------------------------------------------------------------------ bounds
\* number of moduleGroup records the caller has allocated
MaxGroups == 3
\* total number of skip records the caller registers
MaxSkips == 2

\* ------------------------------------------------------------- value sets
\* pointers to moduleGroup records
Groups == 1..MaxGroups

\* module names (Go strings); the empty string is a legal group name
Names == {"", "ab", "b"}

\* the names under which the caller reports skipped modules
SkipNames == {"", "b"}

\* SkippedModuleInfo{filename, reason}
SkipInfos == { [filename |-> "fileA.bp", reason |-> "license"],
               [filename |-> "fileB.bp", reason |-> "platform mismatch"] }

\* names of depending modules passed to MissingDependencyError
Dependers == {"ab"}

\* spelling suggestions passed to MissingDependencyError (nil and the empty
\* slice both have length 0)
Guesses == { << >>, <<"b">>, <<"ab", "b">> }

\* module paths carried by a NamespaceContext
ModulePaths == {"fileA.bp"}

\* the UTF-8 bytes of a name
Bytes(s) ==
    CASE s = ""   -> << >>
      [] s = "ab" -> <<97, 98>>
      [] s = "b"  -> <<98>>

\* Go's s < t on strings: bytewise lexicographic order, a proper prefix first
RECURSIVE SeqLess(_, _)
SeqLess(x, y) ==
    IF Len(y) = 0 THEN FALSE
    ELSE IF Len(x) = 0 THEN TRUE
    ELSE IF Head(x) # Head(y) THEN Head(x) < Head(y)
    ELSE SeqLess(Tail(x), Tail(y))

StrLess(s, t) == SeqLess(Bytes(s), Bytes(t))

\* ------------------------------------------------------------------ state
VARIABLES
    name,            \* name[g]: the name field of moduleGroup record g
    modules,         \* s.modules: function from a set of names to groups
    skippedModules,  \* s.skippedModules: function from names to sequences
    last,            \* the last call made on the registry and what it returned
    readers          \* readers[r]: where goroutine r is in the read it is running

vars == <<name, modules, skippedModules, last, readers>>

\* goroutines that resolve dependencies once registration has completed
Readers == {"r1", "r2"}

\* spelling suggestions the readers pass to MissingDependencyError
ReaderGuesses == { <<"ab", "b">> }

\* no goroutine is inside a read
NoReaders == [r \in Readers |-> [pc |-> "idle"]]

\* the empty Go map
EmptyMap == [k \in {} |-> 0]

\* m[k] = v on a Go map
MapSet(m, k, v) == [x \in (DOMAIN m) \cup {k} |-> IF x = k THEN v ELSE m[x]]

\* delete(m, k) on a Go map
MapDelete(m, k) == [x \in (DOMAIN m) \ {k} |-> m[x]]

\* the zero ModuleGroup (nil pointer) a failed map lookup yields
NilGroup == 0

\* position of the first module of a group, as printed in the error texts
firstModulePos(g) == <<"pos", g>>

\* total number of skip records held
RECURSIVE SumLens(_, _)
SumLens(m, ks) ==
    IF ks = {} THEN 0
    ELSE LET k == CHOOSE x \in ks : TRUE
         IN Len(m[k]) + SumLens(m, ks \ {k})

SkipCount == SumLens(skippedModules, DOMAIN skippedModules)

\* --------------------------------------------------------------- reads
\* v, ok = m[k] on a Go map: the zero value and false when k is no key
MapIndex(m, k, zero) ==
    IF k \in DOMAIN m THEN [value |-> m[k], ok |-> TRUE]
    ELSE [value |-> zero, ok |-> FALSE]

\* value returned by ModuleFromName(moduleName, _) on module table m
ModuleFromNameRet(m, moduleName) ==
    LET r == MapIndex(m, moduleName, NilGroup)
    IN [group |-> r.value, found |-> r.ok]

\* value returned by SkippedModuleFromName(moduleName, _) on skip table m
SkippedModuleFromNameRet(m, moduleName) ==
    LET r == MapIndex(m, moduleName, << >>)
    IN [skipInfos |-> r.value, skipped |-> r.ok]

\* ------------------------------------------------------------ NewModule
\* variant: reports success without storing the group
NewModule_noStore(group) ==
    LET n == name[group] IN
    IF n \in DOMAIN modules
    THEN /\ last' = [op |-> "NewModule", group |-> group,
                     errs |-> << [format |-> "module %q already defined\n       %s <-- previous definition here",
                                  args |-> <<n, firstModulePos(modules[n])>>] >>]
         /\ UNCHANGED <<name, modules, skippedModules, readers>>
    ELSE /\ last' = [op |-> "NewModule", group |-> group, errs |-> << >>]
         /\ UNCHANGED <<name, modules, skippedModules, readers>>

\* variant: stores the group before the presence check is acted upon
NewModule_overwrite(group) ==
    LET n == name[group] IN
    /\ modules' = MapSet(modules, n, group)
    /\ last' = [op |-> "NewModule", group |-> group,
                errs |-> IF n \in DOMAIN modules
                         THEN << [format |-> "module %q already defined\n       %s <-- previous definition here",
                                  args |-> <<n, firstModulePos(modules[n])>>] >>
                         ELSE << >>]
    /\ UNCHANGED <<name, skippedModules, readers>>

NewModule(group) ==
    LET n == name[group] IN
    IF n \in DOMAIN modules
    THEN /\ last' = [op |-> "NewModule", group |-> group,
                     errs |-> << [format |-> "module %q already defined\n       %s <-- previous definition here",
                                  args |-> <<n, firstModulePos(modules[n])>>] >>]
         /\ UNCHANGED <<name, modules, skippedModules, readers>>
    ELSE /\ modules' = MapSet(modules, n, group)
         /\ last' = [op |-> "NewModule", group |-> group, errs |-> << >>]
         /\ UNCHANGED <<name, skippedModules, readers>>

\* ----------------------------------------------------- NewSkippedModule
\* variant: without the empty-name early return
NewSkippedModule_noEmptyCheck(n, info) ==
    /\ SkipCount < MaxSkips
    /\ skippedModules' =
         MapSet(skippedModules, n,
                Append(MapIndex(skippedModules, n, << >>).value, info))
    /\ last' = [op |-> "NewSkippedModule", name |-> n, info |-> info]
    /\ UNCHANGED <<name, modules, readers>>

\* variant: a record equal to one already held under the name is not appended
NewSkippedModule_dedup(n, info) ==
    /\ IF n = ""
       THEN UNCHANGED skippedModules
       ELSE /\ SkipCount < MaxSkips
            /\ LET old == MapIndex(skippedModules, n, << >>).value IN
               IF \E i \in 1..Len(old) : old[i] = info
               THEN UNCHANGED skippedModules
               ELSE skippedModules' = MapSet(skippedModules, n, Append(old, info))
    /\ last' = [op |-> "NewSkippedModule", name |-> n, info |-> info]
    /\ UNCHANGED <<name, modules, readers>>

NewSkippedModule(n, info) ==
    /\ IF n = ""
       THEN UNCHANGED skippedModules
       ELSE /\ SkipCount < MaxSkips
            /\ skippedModules' =
                 MapSet(skippedModules, n,
                        Append(MapIndex(skippedModules, n, << >>).value, info))
    /\ last' = [op |-> "NewSkippedModule", name |-> n, info |-> info]
    /\ UNCHANGED <<name, modules, readers>>

\* ------------------------------------------------------- ModuleFromName
ModuleFromName(moduleName) ==
    /\ last' = [op |-> "ModuleFromName", name |-> moduleName,
                ret |-> ModuleFromNameRet(modules, moduleName)]
    /\ UNCHANGED <<name, modules, skippedModules, readers>>

\* ------------------------------------------------ SkippedModuleFromName
\* variant: a miss leaves an empty entry behind in the skip table
SkippedModuleFromName_createsEntry(moduleName) ==
    /\ last' = [op |-> "SkippedModuleFromName", name |-> moduleName,
                ret |-> SkippedModuleFromNameRet(skippedModules, moduleName)]
    /\ skippedModules' = MapSet(skippedModules, moduleName,
                                MapIndex(skippedModules, moduleName, << >>).value)
    /\ UNCHANGED <<name, modules, readers>>

SkippedModuleFromName(moduleName) ==
    /\ last' = [op |-> "SkippedModuleFromName", name |-> moduleName,
                ret |-> SkippedModuleFromNameRet(skippedModules, moduleName)]
    /\ UNCHANGED <<name, modules, skippedModules, readers>>

\* --------------------------------------------------------------- Rename
\* variant: the old key is not deleted
Rename_noDelete(oldName, newName) ==
    IF newName \in DOMAIN modules
    THEN /\ last' = [op |-> "Rename", oldName |-> oldName, newName |-> newName,
                     errs |-> << [format |-> "renaming module %q to %q conflicts with existing module\n       %s <-- existing module defined here",
                                  args |-> <<oldName, newName,
                                             firstModulePos(modules[newName])>>] >>]
         /\ UNCHANGED <<name, modules, skippedModules, readers>>
    ELSE IF oldName \notin DOMAIN modules
    THEN /\ last' = [op |-> "Rename", oldName |-> oldName, newName |-> newName,
                     errs |-> << [format |-> "module %q to renamed to %q doesn't exist",
                                  args |-> <<oldName, newName>>] >>]
         /\ UNCHANGED <<name, modules, skippedModules, readers>>
    ELSE LET group == modules[oldName] IN
         /\ modules' = MapSet(modules, newName, group)
         /\ name' = [name EXCEPT ![group] = newName]
         /\ last' = [op |-> "Rename", oldName |-> oldName, newName |-> newName,
                     errs |-> << >>]
         /\ UNCHANGED <<skippedModules, readers>>

\* variant: the target name is not checked
Rename_noTargetCheck(oldName, newName) ==
    IF oldName \notin DOMAIN modules
    THEN /\ last' = [op |-> "Rename", oldName |-> oldName, newName |-> newName,
                     errs |-> << [format |-> "module %q to renamed to %q doesn't exist",
                                  args |-> <<oldName, newName>>] >>]
         /\ UNCHANGED <<name, modules, skippedModules, readers>>
    ELSE LET group == modules[oldName] IN
         /\ modules' = MapDelete(MapSet(modules, newName, group), name[group])
         /\ name' = [name EXCEPT ![group] = newName]
         /\ last' = [op |-> "Rename", oldName |-> oldName, newName |-> newName,
                     errs |-> << >>]
         /\ UNCHANGED <<skippedModules, readers>>

\* variant: a missing source name is not reported
Rename_silentMissing(oldName, newName) ==
    IF newName \in DOMAIN modules
    THEN /\ last' = [op |-> "Rename", oldName |-> oldName, newName |-> newName,
                     errs |-> << [format |-> "renaming module %q to %q conflicts with existing module\n       %s <-- existing module defined here",
                                  args |-> <<oldName, newName,
                                             firstModulePos(modules[newName])>>] >>]
         /\ UNCHANGED <<name, modules, skippedModules, readers>>
    ELSE IF oldName \notin DOMAIN modules
    THEN /\ last' = [op |-> "Rename", oldName |-> oldName, newName |-> newName,
                     errs |-> << >>]
         /\ UNCHANGED <<name, modules, skippedModules, readers>>
    ELSE LET group == modules[oldName] IN
         /\ modules' = MapDelete(MapSet(modules, newName, group), name[group])
         /\ name' = [name EXCEPT ![group] = newName]
         /\ last' = [op |-> "Rename", oldName |-> oldName, newName |-> newName,
                     errs |-> << >>]
         /\ UNCHANGED <<skippedModules, readers>>

\* variant: the group's name field is not updated
Rename_noNameUpdate(oldName, newName) ==
    IF newName \in DOMAIN modules
    THEN /\ last' = [op |-> "Rename", oldName |-> oldName, newName |-> newName,
                     errs |-> << [format |-> "renaming module %q to %q conflicts with existing module\n       %s <-- existing module defined here",
                                  args |-> <<oldName, newName,
                                             firstModulePos(modules[newName])>>] >>]
         /\ UNCHANGED <<name, modules, skippedModules, readers>>
    ELSE IF oldName \notin DOMAIN modules
    THEN /\ last' = [op |-> "Rename", oldName |-> oldName, newName |-> newName,
                     errs |-> << [format |-> "module %q to renamed to %q doesn't exist",
                                  args |-> <<oldName, newName>>] >>]
         /\ UNCHANGED <<name, modules, skippedModules, readers>>
    ELSE LET group == modules[oldName] IN
         /\ modules' = MapDelete(MapSet(modules, newName, group), name[group])
         /\ UNCHANGED name
         /\ last' = [op |-> "Rename", oldName |-> oldName, newName |-> newName,
                     errs |-> << >>]
         /\ UNCHANGED <<skippedModules, readers>>

\* variant: the name field is assigned before the delete, which then removes the new key
Rename_nameFirst(oldName, newName) ==
    IF newName \in DOMAIN modules
    THEN /\ last' = [op |-> "Rename", oldName |-> oldName, newName |-> newName,
                     errs |-> << [format |-> "renaming module %q to %q conflicts with existing module\n       %s <-- existing module defined here",
                                  args |-> <<oldName, newName,
                                             firstModulePos(modules[newName])>>] >>]
         /\ UNCHANGED <<name, modules, skippedModules, readers>>
    ELSE IF oldName \notin DOMAIN modules
    THEN /\ last' = [op |-> "Rename", oldName |-> oldName, newName |-> newName,
                     errs |-> << [format |-> "module %q to renamed to %q doesn't exist",
                                  args |-> <<oldName, newName>>] >>]
         /\ UNCHANGED <<name, modules, skippedModules, readers>>
    ELSE LET group == modules[oldName] IN
         /\ modules' = MapDelete(MapSet(modules, newName, group), newName)
         /\ name' = [name EXCEPT ![group] = newName]
         /\ last' = [op |-> "Rename", oldName |-> oldName, newName |-> newName,
                     errs |-> << >>]
         /\ UNCHANGED <<skippedModules, readers>>

\* variant: the source name is checked before the target name
Rename_sourceFirst(oldName, newName) ==
    IF oldName \notin DOMAIN modules
    THEN /\ last' = [op |-> "Rename", oldName |-> oldName, newName |-> newName,
                     errs |-> << [format |-> "module %q to renamed to %q doesn't exist",
                                  args |-> <<oldName, newName>>] >>]
         /\ UNCHANGED <<name, modules, skippedModules, readers>>
    ELSE IF newName \in DOMAIN modules
    THEN /\ last' = [op |-> "Rename", oldName |-> oldName, newName |-> newName,
                     errs |-> << [format |-> "renaming module %q to %q conflicts with existing module\n       %s <-- existing module defined here",
                                  args |-> <<oldName, newName,
                                             firstModulePos(modules[newName])>>] >>]
         /\ UNCHANGED <<name, modules, skippedModules, readers>>
    ELSE LET group == modules[oldName] IN
         /\ modules' = MapDelete(MapSet(modules, newName, group), name[group])
         /\ name' = [name EXCEPT ![group] = newName]
         /\ last' = [op |-> "Rename", oldName |-> oldName, newName |-> newName,
                     errs |-> << >>]
         /\ UNCHANGED <<skippedModules, readers>>

\* variant: renaming a registered name to itself is accepted as a no-op
Rename_selfNoop(oldName, newName) ==
    IF oldName = newName /\ oldName \in DOMAIN modules
    THEN /\ last' = [op |-> "Rename", oldName |-> oldName, newName |-> newName,
                     errs |-> << >>]
         /\ UNCHANGED <<name, modules, skippedModules, readers>>
    ELSE IF newName \in DOMAIN modules
    THEN /\ last' = [op |-> "Rename", oldName |-> oldName, newName |-> newName,
                     errs |-> << [format |-> "renaming module %q to %q conflicts with existing module\n       %s <-- existing module defined here",
                                  args |-> <<oldName, newName,
                                             firstModulePos(modules[newName])>>] >>]
         /\ UNCHANGED <<name, modules, skippedModules, readers>>
    ELSE IF oldName \notin DOMAIN modules
    THEN /\ last' = [op |-> "Rename", oldName |-> oldName, newName |-> newName,
                     errs |-> << [format |-> "module %q to renamed to %q doesn't exist",
                                  args |-> <<oldName, newName>>] >>]
         /\ UNCHANGED <<name, modules, skippedModules, readers>>
    ELSE LET group == modules[oldName] IN
         /\ modules' = MapDelete(MapSet(modules, newName, group), name[group])
         /\ name' = [name EXCEPT ![group] = newName]
         /\ last' = [op |-> "Rename", oldName |-> oldName, newName |-> newName,
                     errs |-> << >>]
         /\ UNCHANGED <<skippedModules, readers>>

\* variant: the skip records of the old name move to the new name
Rename_movesSkips(oldName, newName) ==
    IF newName \in DOMAIN modules
    THEN /\ last' = [op |-> "Rename", oldName |-> oldName, newName |-> newName,
                     errs |-> << [format |-> "renaming module %q to %q conflicts with existing module\n       %s <-- existing module defined here",
                                  args |-> <<oldName, newName,
                                             firstModulePos(modules[newName])>>] >>]
         /\ UNCHANGED <<name, modules, skippedModules, readers>>
    ELSE IF oldName \notin DOMAIN modules
    THEN /\ last' = [op |-> "Rename", oldName |-> oldName, newName |-> newName,
                     errs |-> << [format |-> "module %q to renamed to %q doesn't exist",
                                  args |-> <<oldName, newName>>] >>]
         /\ UNCHANGED <<name, modules, skippedModules, readers>>
    ELSE LET group == modules[oldName] IN
         /\ modules' = MapDelete(MapSet(modules, newName, group), name[group])
         /\ name' = [name EXCEPT ![group] = newName]
         /\ last' = [op |-> "Rename", oldName |-> oldName, newName |-> newName,
                     errs |-> << >>]
         /\ skippedModules' =
              IF oldName \in DOMAIN skippedModules
              THEN MapDelete(MapSet(skippedModules, newName, skippedModules[oldName]),
                             oldName)
              ELSE skippedModules
         /\ UNCHANGED readers

Rename(oldName, newName) ==
    IF newName \in DOMAIN modules
    THEN /\ last' = [op |-> "Rename", oldName |-> oldName, newName |-> newName,
                     errs |-> << [format |-> "renaming module %q to %q conflicts with existing module\n       %s <-- existing module defined here",
                                  args |-> <<oldName, newName,
                                             firstModulePos(modules[newName])>>] >>]
         /\ UNCHANGED <<name, modules, skippedModules, readers>>
    ELSE IF oldName \notin DOMAIN modules
    THEN /\ last' = [op |-> "Rename", oldName |-> oldName, newName |-> newName,
                     errs |-> << [format |-> "module %q to renamed to %q doesn't exist",
                                  args |-> <<oldName, newName>>] >>]
         /\ UNCHANGED <<name, modules, skippedModules, readers>>
    ELSE LET group == modules[oldName] IN
         /\ modules' = MapDelete(MapSet(modules, newName, group), name[group])
         /\ name' = [name EXCEPT ![group] = newName]
         /\ last' = [op |-> "Rename", oldName |-> oldName, newName |-> newName,
                     errs |-> << >>]
         /\ UNCHANGED <<skippedModules, readers>>

\* ----------------------------------------------------------- AllModules
\* all orders in which ranging over a map with key set ks can visit the keys
RECURSIVE KeyOrders(_)
KeyOrders(ks) ==
    IF ks = {} THEN { << >> }
    ELSE UNION { { <<k>> \o rest : rest \in KeyOrders(ks \ {k}) } : k \in ks }

\* the less closure: st = [groups, duplicateName]; returns the updated
\* duplicateName and the comparison result
\* variant: the comparison is the wrong way round
less_reversed(st, i, j) ==
    [duplicateName |-> IF name[st.groups[i]] = name[st.groups[j]]
                       THEN name[st.groups[i]] ELSE st.duplicateName,
     result |-> StrLess(name[st.groups[j]], name[st.groups[i]])]

less(st, i, j) ==
    [duplicateName |-> IF name[st.groups[i]] = name[st.groups[j]]
                       THEN name[st.groups[i]] ELSE st.duplicateName,
     result |-> StrLess(name[st.groups[i]], name[st.groups[j]])]

Swap(s, i, j) == [s EXCEPT ![i] = s[j], ![j] = s[i]]

\* sort.Slice on a slice of at most 12 elements is an insertion sort:
\*   for i := a+1; i < b; i++ { for j := i; j > a && less(j, j-1); j-- { swap(j, j-1) } }
RECURSIVE insertionInner(_, _)
insertionInner(st, j) ==
    IF j > 1
    THEN LET c == less(st, j, j - 1) IN
         IF c.result
         THEN insertionInner([groups |-> Swap(st.groups, j, j - 1),
                              duplicateName |-> c.duplicateName], j - 1)
         ELSE [groups |-> st.groups, duplicateName |-> c.duplicateName]
    ELSE st

RECURSIVE insertionSort(_, _)
insertionSort(st, i) ==
    IF i > Len(st.groups) THEN st
    ELSE insertionSort(insertionInner(st, i), i + 1)

\* what AllModules does when the map is ranged over in key order ord
AllModulesRet(ord) ==
    LET groups == [i \in 1..Len(ord) |-> modules[ord[i]]]
        st == insertionSort([groups |-> groups, duplicateName |-> ""], 2)
    IN IF st.duplicateName # ""
       THEN [panicked |-> TRUE, duplicateName |-> st.duplicateName, groups |-> << >>]
       ELSE [panicked |-> FALSE, duplicateName |-> "", groups |-> st.groups]

AllModules ==
    /\ \E ord \in KeyOrders(DOMAIN modules) :
          last' = [op |-> "AllModules", ret |-> AllModulesRet(ord)]
    /\ UNCHANGED <<name, modules, skippedModules, readers>>

\* ----------------------------------------------- MissingDependencyError
\* A text is modelled as the sequence of the pieces it is the concatenation
\* of; the empty text is the empty sequence.

\* the %q verb applied to a string
Quote(str) == <<"\"", str, "\"">>

\* the %q verb applied to a []string: [ "x" "y" ]
RECURSIVE QuoteEach(_)
QuoteEach(strs) ==
    IF Len(strs) = 0 THEN << >>
    ELSE IF Len(strs) = 1 THEN Quote(strs[1])
    ELSE Quote(strs[1]) \o <<" ">> \o QuoteEach(Tail(strs))

QuoteSlice(strs) == <<"[">> \o QuoteEach(strs) \o <<"]">>

\* strings.Join(elems, sep)
RECURSIVE Join(_, _)
Join(elems, sep) ==
    IF Len(elems) = 0 THEN << >>
    ELSE IF Len(elems) = 1 THEN <<elems[1]>>
    ELSE <<elems[1], sep>> \o Join(Tail(elems), sep)

\* variant: the loop over skipInfos stops one record short
MissingDependencyErrorRet_dropsLast(m, depender, dependency, guess) ==
    LET r == SkippedModuleFromNameRet(m, dependency) IN
    IF r.skipped
    THEN LET filesFound == [i \in 1..(Len(r.skipInfos) - 1) |-> r.skipInfos[i].filename]
             reasons == [i \in 1..(Len(r.skipInfos) - 1) |-> r.skipInfos[i].reason]
         IN <<"module ">> \o Quote(depender)
              \o <<" depends on skipped module ">> \o Quote(dependency)
              \o <<"; ">> \o Quote(dependency)
              \o <<" was defined in files(s) [">> \o Join(filesFound, ", ")
              \o <<"], but was skipped for reason(s) [">> \o Join(reasons, "; ")
              \o <<"]">>
    ELSE LET guessString == IF Len(guess) > 0
                            THEN <<" Did you mean ">> \o QuoteSlice(guess) \o <<"?">>
                            ELSE << >>
         IN Quote(depender) \o <<" depends on undefined module ">>
              \o Quote(dependency) \o <<".">> \o guessString

\* variant: the suggestion clause needs more than one suggestion
MissingDependencyErrorRet_needsTwoGuesses(m, depender, dependency, guess) ==
    LET r == SkippedModuleFromNameRet(m, dependency) IN
    IF r.skipped
    THEN LET filesFound == [i \in 1..Len(r.skipInfos) |-> r.skipInfos[i].filename]
             reasons == [i \in 1..Len(r.skipInfos) |-> r.skipInfos[i].reason]
         IN <<"module ">> \o Quote(depender)
              \o <<" depends on skipped module ">> \o Quote(dependency)
              \o <<"; ">> \o Quote(dependency)
              \o <<" was defined in files(s) [">> \o Join(filesFound, ", ")
              \o <<"], but was skipped for reason(s) [">> \o Join(reasons, "; ")
              \o <<"]">>
    ELSE LET guessString == IF Len(guess) > 1
                            THEN <<" Did you mean ">> \o QuoteSlice(guess) \o <<"?">>
                            ELSE << >>
         IN Quote(depender) \o <<" depends on undefined module ">>
              \o Quote(dependency) \o <<".">> \o guessString

\* the error text MissingDependencyError returns on skip table m
MissingDependencyErrorRet(m, depender, dependency, guess) ==
    LET r == SkippedModuleFromNameRet(m, dependency) IN
    IF r.skipped
    THEN LET filesFound == [i \in 1..Len(r.skipInfos) |-> r.skipInfos[i].filename]
             reasons == [i \in 1..Len(r.skipInfos) |-> r.skipInfos[i].reason]
         IN <<"module ">> \o Quote(depender)
              \o <<" depends on skipped module ">> \o Quote(dependency)
              \o <<"; ">> \o Quote(dependency)
              \o <<" was defined in files(s) [">> \o Join(filesFound, ", ")
              \o <<"], but was skipped for reason(s) [">> \o Join(reasons, "; ")
              \o <<"]">>
    ELSE LET guessString == IF Len(guess) > 0
                            THEN <<" Did you mean ">> \o QuoteSlice(guess) \o <<"?">>
                            ELSE << >>
         IN Quote(depender) \o <<" depends on undefined module ">>
              \o Quote(dependency) \o <<".">> \o guessString

MissingDependencyError(depender, dependency, guess) ==
    /\ last' = [op |-> "MissingDependencyError", depender |-> depender,
                dependency |-> dependency, guess |-> guess,
                ret |-> MissingDependencyErrorRet(skippedModules, depender,
                                                  dependency, guess)]
    /\ UNCHANGED <<name, modules, skippedModules, readers>>

\* --------------------------------------------------------- GetNamespace
\* the nil Namespace
NilNamespace == "nil"

GetNamespace(ctx) ==
    /\ last' = [op |-> "GetNamespace", ctx |-> ctx, ret |-> NilNamespace]
    /\ UNCHANGED <<name, modules, skippedModules, readers>>

\* ----------------------------------------------------------- UniqueName
UniqueName(ctx, n) ==
    /\ last' = [op |-> "UniqueName", ctx |-> ctx, name |-> n, ret |-> n]
    /\ UNCHANGED <<name, modules, skippedModules, readers>>

\* ------------------------------------------------------------ behaviours
\* NewSimpleNameInterface(): both maps empty; the caller owns the group
\* records, each with whatever name it was built with
Init ==
    /\ name \in [Groups -> Names]
    /\ modules = EmptyMap
    /\ skippedModules = EmptyMap
    /\ last = [op |-> "NewSimpleNameInterface"]
    /\ readers = NoReaders

Next ==
    \/ \E g \in Groups : NewModule(g)
    \/ \E n \in SkipNames, info \in SkipInfos : NewSkippedModule(n, info)
    \/ \E n \in Names : ModuleFromName(n)
    \/ \E n \in Names : SkippedModuleFromName(n)
    \/ \E o \in Names, n \in Names : Rename(o, n)
    \/ AllModules
    \/ \E d \in Dependers, n \in Names, guess \in Guesses :
          MissingDependencyError(d, n, guess)
    \/ \E ctx \in ModulePaths : GetNamespace(ctx)
    \/ \E ctx \in ModulePaths, n \in Names : UniqueName(ctx, n)

Spec == Init /\ [][Next]_vars

\* Enumeration over an arbitrary content of the storage: every module table
\* (any keys, any groups, keys and name fields unrelated) with AllModules
\* applied to it
TableContents == UNION { [ks -> Groups] : ks \in SUBSET Names }

InitStorage ==
    /\ name \in [Groups -> Names]
    /\ modules \in TableContents
    /\ skippedModules = EmptyMap
    /\ last = [op |-> "NewSimpleNameInterface"]
    /\ readers = NoReaders

NextStorage == AllModules

SpecStorage == InitStorage /\ [][NextStorage]_vars

\* ------------------------------------------------- concurrent readers
\* Registration runs first, one call at a time; once it has completed the
\* goroutines of Readers run reads against the registry, each read advancing
\* one access to the shared maps and records at a time, interleaved freely.

\* registration has completed: no mutating call is made any more
RegistrationCompleted ==
    /\ last.op # "RegistrationCompleted"
    /\ last' = [op |-> "RegistrationCompleted"]
    /\ UNCHANGED <<name, modules, skippedModules, readers>>

\* a mutating call made during registration
Register ==
    /\ last.op # "RegistrationCompleted"
    /\ \/ \E g \in Groups : NewModule(g)
       \/ \E n \in SkipNames, info \in SkipInfos : NewSkippedModule(n, info)
       \/ \E o \in Names, n \in Names : Rename(o, n)

\* goroutine r enters a read
ReaderCall(r) ==
    /\ last.op = "RegistrationCompleted"
    /\ readers[r].pc = "idle"
    /\ \/ \E n \in Names :
            readers' = [readers EXCEPT ![r] =
                          [pc |-> "ModuleFromName", moduleName |-> n]]
       \/ \E n \in Names :
            readers' = [readers EXCEPT ![r] =
                          [pc |-> "SkippedModuleFromName", moduleName |-> n]]
       \/ \E d \in Dependers, n \in Names, guess \in ReaderGuesses :
            readers' = [readers EXCEPT ![r] =
                          [pc |-> "MissingDependencyError", depender |-> d,
                           dependency |-> n, guess |-> guess]]
       \/ readers' = [readers EXCEPT ![r] = [pc |-> "AllModules"]]
    /\ UNCHANGED <<name, modules, skippedModules, last>>

\* ModuleFromName in goroutine r: the map index and the return
ReaderModuleFromName(r) ==
    /\ readers[r].pc = "ModuleFromName"
    /\ readers' = [readers EXCEPT ![r] =
                     [pc |-> "done", op |-> "ModuleFromName",
                      moduleName |-> readers[r].moduleName,
                      ret |-> ModuleFromNameRet(modules, readers[r].moduleName)]]
    /\ UNCHANGED <<name, modules, skippedModules, last>>

\* variant: a miss leaves an empty entry behind in the shared skip table
ReaderSkippedModuleFromName_createsEntry(r) ==
    /\ readers[r].pc = "SkippedModuleFromName"
    /\ readers' = [readers EXCEPT ![r] =
                     [pc |-> "done", op |-> "SkippedModuleFromName",
                      moduleName |-> readers[r].moduleName,
                      ret |-> SkippedModuleFromNameRet(skippedModules,
                                                       readers[r].moduleName)]]
    /\ skippedModules' = MapSet(skippedModules, readers[r].moduleName,
                                MapIndex(skippedModules, readers[r].moduleName,
                                         << >>).value)
    /\ UNCHANGED <<name, modules, last>>

\* SkippedModuleFromName in goroutine r: the map index and the return
ReaderSkippedModuleFromName(r) ==
    /\ readers[r].pc = "SkippedModuleFromName"
    /\ readers' = [readers EXCEPT ![r] =
                     [pc |-> "done", op |-> "SkippedModuleFromName",
                      moduleName |-> readers[r].moduleName,
                      ret |-> SkippedModuleFromNameRet(skippedModules,
                                                       readers[r].moduleName)]]
    /\ UNCHANGED <<name, modules, skippedModules, last>>

\* MissingDependencyError in goroutine r, first statement: the lookup of the
\* skip records, kept in the locals skipInfos and skipped
ReaderMissingDependencyLookup(r) ==
    /\ readers[r].pc = "MissingDependencyError"
    /\ LET res == SkippedModuleFromNameRet(skippedModules, readers[r].dependency)
       IN readers' = [readers EXCEPT ![r] =
                        [pc |-> "MissingDependencyError.format",
                         depender |-> readers[r].depender,
                         dependency |-> readers[r].dependency,
                         guess |-> readers[r].guess,
                         skipInfos |-> res.skipInfos, skipped |-> res.skipped]]
    /\ UNCHANGED <<name, modules, skippedModules, last>>

\* MissingDependencyError in goroutine r, the rest: the text is built from
\* the locals
ReaderMissingDependencyFormat(r) ==
    /\ readers[r].pc = "MissingDependencyError.format"
    /\ LET rd == readers[r]
           local == IF rd.skipped
                    THEN MapSet(EmptyMap, rd.dependency, rd.skipInfos)
                    ELSE EmptyMap
       IN readers' = [readers EXCEPT ![r] =
                        [pc |-> "done", op |-> "MissingDependencyError",
                         depender |-> rd.depender, dependency |-> rd.dependency,
                         guess |-> rd.guess,
                         ret |-> MissingDependencyErrorRet(local, rd.depender,
                                                           rd.dependency, rd.guess)]]
    /\ UNCHANGED <<name, modules, skippedModules, last>>

\* AllModules in goroutine r, the range loop: the groups of the map are
\* collected into the local slice in some iteration order
ReaderAllModulesRange(r) ==
    /\ readers[r].pc = "AllModules"
    /\ \E ord \in KeyOrders(DOMAIN modules) :
          readers' = [readers EXCEPT ![r] =
                        [pc |-> "AllModules.sort",
                         groups |-> [i \in 1..Len(ord) |-> modules[ord[i]]]]]
    /\ UNCHANGED <<name, modules, skippedModules, last>>

\* AllModules in goroutine r, sort.Slice on the local slice; less reads the
\* name fields of the shared records and writes the local duplicateName
ReaderAllModulesSort(r) ==
    /\ readers[r].pc = "AllModules.sort"
    /\ LET st == insertionSort([groups |-> readers[r].groups,
                                duplicateName |-> ""], 2)
       IN readers' = [readers EXCEPT ![r] =
                        [pc |-> "AllModules.return", groups |-> st.groups,
                         duplicateName |-> st.duplicateName]]
    /\ UNCHANGED <<name, modules, skippedModules, last>>

\* AllModules in goroutine r, the duplicate test and the return
ReaderAllModulesReturn(r) ==
    /\ readers[r].pc = "AllModules.return"
    /\ readers' = [readers EXCEPT ![r] =
                     [pc |-> "done", op |-> "AllModules",
                      ret |-> IF readers[r].duplicateName # ""
                              THEN [panicked |-> TRUE,
                                    duplicateName |-> readers[r].duplicateName,
                                    groups |-> << >>]
                              ELSE [panicked |-> FALSE, duplicateName |-> "",
                                    groups |-> readers[r].groups]]]
    /\ UNCHANGED <<name, modules, skippedModules, last>>

\* goroutine r has used the result of its read and is free for the next
ReaderDone(r) ==
    /\ readers[r].pc = "done"
    /\ readers' = [readers EXCEPT ![r] = [pc |-> "idle"]]
    /\ UNCHANGED <<name, modules, skippedModules, last>>

NextReaders ==
    \/ Register
    \/ RegistrationCompleted
    \/ \E r \in Readers : ReaderCall(r)
    \/ \E r \in Readers : ReaderModuleFromName(r)
    \/ \E r \in Readers : ReaderSkippedModuleFromName(r)
    \/ \E r \in Readers : ReaderMissingDependencyLookup(r)
    \/ \E r \in Readers : ReaderMissingDependencyFormat(r)
    \/ \E r \in Readers : ReaderAllModulesRange(r)
    \/ \E r \in Readers : ReaderAllModulesSort(r)
    \/ \E r \in Readers : ReaderAllModulesReturn(r)
    \/ \E r \in Readers : ReaderDone(r)

SpecReaders == Init /\ [][NextReaders]_vars

\* ================================================================ claims
\* the groups held by module table m
Range(m) == { m[k] : k \in DOMAIN m }

\* C1: registering a group whose name is not a key of the module table
\* returns no errors, and a lookup of that name made directly afterwards
\* finds the very group that was passed in.
C1_RegisterNewThenLookup ==
    [][ (last'.op = "NewModule" /\ name[last'.group] \notin DOMAIN modules)
        => /\ last'.errs = << >>
           /\ ModuleFromNameRet(modules', name[last'.group])
                = [group |-> last'.group, found |-> TRUE] ]_vars

C1_Witness ==
    /\ last.op = "NewModule"
    /\ last.errs = << >>
    /\ ModuleFromNameRet(modules, name[last.group]).group = last.group
    /\ Cardinality(DOMAIN modules) >= 2

\* C2: registering a group whose name is already a key returns a non-empty
\* error list and changes nothing: module table, skip table and every name
\* field are as before, and the name still looks up to the first group.
C2_RegisterDuplicateRejected ==
    [][ (last'.op = "NewModule" /\ name[last'.group] \in DOMAIN modules)
        => /\ last'.errs # << >>
           /\ modules' = modules
           /\ skippedModules' = skippedModules
           /\ name' = name
           /\ ModuleFromNameRet(modules', name[last'.group])
                = [group |-> modules[name[last'.group]], found |-> TRUE] ]_vars

C2_Witness ==
    /\ last.op = "NewModule"
    /\ last.errs # << >>
    /\ name[last.group] \in DOMAIN modules
    /\ modules[name[last.group]] # last.group

\* C3: Rename(A, B) with A registered and B not registered succeeds; after
\* it A is not found, B looks up to the group A mapped to, that group's name
\* field is B, exactly one key maps to that group, and every other entry of
\* the module table is unchanged.
C3_RenameMovesGroup ==
    [][ (/\ last'.op = "Rename"
         /\ last'.oldName \in DOMAIN modules
         /\ last'.newName \notin DOMAIN modules)
        => LET A == last'.oldName
               B == last'.newName
               g == modules[A]
           IN /\ last'.errs = << >>
              /\ ~ModuleFromNameRet(modules', A).found
              /\ ModuleFromNameRet(modules', B) = [group |-> g, found |-> TRUE]
              /\ name'[g] = B
              /\ Cardinality({ k \in DOMAIN modules' : modules'[k] = g }) = 1
              /\ DOMAIN modules' = ((DOMAIN modules) \ {A}) \cup {B}
              /\ \A k \in (DOMAIN modules) \ {A} : modules'[k] = modules[k] ]_vars

C3_Witness ==
    /\ last.op = "Rename"
    /\ last.errs = << >>
    /\ last.oldName \notin DOMAIN modules
    /\ last.newName \in DOMAIN modules
    /\ name[modules[last.newName]] = last.newName
    /\ Cardinality(DOMAIN modules) >= 2

\* C4: Rename(A, B) with A and B both registered, A # B, returns a non-empty
\* error list and leaves both tables and every name field exactly as before.
C4_RenameOntoRegisteredRejected ==
    [][ (/\ last'.op = "Rename"
         /\ last'.oldName # last'.newName
         /\ last'.oldName \in DOMAIN modules
         /\ last'.newName \in DOMAIN modules)
        => /\ last'.errs # << >>
           /\ modules' = modules
           /\ skippedModules' = skippedModules
           /\ name' = name ]_vars

C4_Witness ==
    /\ last.op = "Rename"
    /\ last.errs # << >>
    /\ last.oldName # last.newName
    /\ last.oldName \in DOMAIN modules
    /\ last.newName \in DOMAIN modules
    /\ modules[last.oldName] # modules[last.newName]

\* C5: Rename(A, B) with A not registered returns a non-empty error list for
\* every B, registered or not, and leaves both tables and every name field
\* unchanged; no entry appears under B.
C5_RenameMissingSourceRejected ==
    [][ (last'.op = "Rename" /\ last'.oldName \notin DOMAIN modules)
        => /\ last'.errs # << >>
           /\ modules' = modules
           /\ skippedModules' = skippedModules
           /\ name' = name
           /\ (last'.newName \in DOMAIN modules') = (last'.newName \in DOMAIN modules) ]_vars

C5_Witness ==
    /\ last.op = "Rename"
    /\ last.errs # << >>
    /\ last.oldName \notin DOMAIN modules
    /\ last.newName \notin DOMAIN modules
    /\ modules # EmptyMap

\* C6 (I1): after any sequence of operations, no two distinct entries of the
\* module table hold groups whose name fields are equal.
C6_NoTwoEntriesShareName ==
    \A k1 \in DOMAIN modules, k2 \in DOMAIN modules :
        k1 # k2 => name[modules[k1]] # name[modules[k2]]

C6_Witness ==
    /\ Cardinality(DOMAIN modules) >= 2
    /\ last.op = "NewModule"
    /\ last.errs = << >>
    /\ \E g \in Groups \ Range(modules) : name[g] \in DOMAIN modules

\* C7: AllModules returns every group of the module table exactly once and
\* nothing else, strictly ascending by name field, whatever order the map
\* is ranged over.
C7_AllModulesSortedComplete ==
    last.op = "AllModules"
    => LET r == last.ret IN
       /\ ~r.panicked
       /\ Len(r.groups) = Cardinality(DOMAIN modules)
       /\ { r.groups[i] : i \in 1..Len(r.groups) } = Range(modules)
       /\ \A i \in 1..Len(r.groups), j \in 1..Len(r.groups) :
             i # j => r.groups[i] # r.groups[j]
       /\ \A i \in 1..(Len(r.groups) - 1) :
             StrLess(name[r.groups[i]], name[r.groups[i + 1]])

C7_Witness ==
    /\ last.op = "AllModules"
    /\ ~last.ret.panicked
    /\ Len(last.ret.groups) = 3

\* two distinct entries of the module table hold groups of equal name
HasDuplicateName ==
    \E k1 \in DOMAIN modules, k2 \in DOMAIN modules :
        k1 # k2 /\ name[modules[k1]] = name[modules[k2]]

\* C8 (I3 detection): for every content of the module table with two
\* distinct entries whose groups have the same name field, the empty name
\* included, AllModules panics instead of returning a sequence.
C8_DuplicateAlwaysPanics ==
    (last.op = "AllModules" /\ HasDuplicateName) => last.ret.panicked

\* C9: through NewModule, NewSkippedModule and Rename, starting from the
\* empty registry, the duplicate-name panic of AllModules is never reached.
C9_AllModulesNeverPanics ==
    last.op = "AllModules" => ~last.ret.panicked

C9_Witness ==
    /\ last.op = "AllModules"
    /\ last.ret.groups # << >>
    /\ "" \in DOMAIN modules
    /\ \E g \in Groups \ Range(modules) : name[g] \in DOMAIN modules

\* C10: NewSkippedModule with the empty name changes neither table and no
\* name field, and the empty name has no skip record afterwards.
C10_SkipEmptyNameIsNoOp ==
    [][ (last'.op = "NewSkippedModule" /\ last'.name = "")
        => /\ modules' = modules
           /\ skippedModules' = skippedModules
           /\ name' = name
           /\ ~SkippedModuleFromNameRet(skippedModules', "").skipped ]_vars

C10_Witness ==
    /\ last.op = "NewSkippedModule"
    /\ last.name = ""
    /\ skippedModules # EmptyMap
    /\ ~SkippedModuleFromNameRet(skippedModules, "").skipped

\* the skip records held under name n in skip table m
SkipsOf(m, n) == MapIndex(m, n, << >>).value

\* sequence s is a prefix of sequence t
IsPrefix(s, t) == Len(s) <= Len(t) /\ SubSeq(t, 1, Len(s)) = s

\* C11 (I4): in every step the skip records of every name before the step
\* are a prefix of those after it, and a NewSkippedModule call with a
\* non-empty name appends exactly its record at the end of that name's
\* sequence, also when an equal record is already there, and touches no
\* other name.
C11_SkipRecordsAppendOnly ==
    [][ /\ \A n \in Names :
              IsPrefix(SkipsOf(skippedModules, n), SkipsOf(skippedModules', n))
        /\ (last'.op = "NewSkippedModule" /\ last'.name # "")
           => /\ SkipsOf(skippedModules', last'.name)
                   = Append(SkipsOf(skippedModules, last'.name), last'.info)
              /\ \A n \in Names \ {last'.name} :
                   SkipsOf(skippedModules', n) = SkipsOf(skippedModules, n) ]_vars

C11_Witness ==
    /\ last.op = "NewSkippedModule"
    /\ last.name # ""
    /\ SkipsOf(skippedModules, last.name) = <<last.info, last.info>>

\* position of the first occurrence of piece in text
IndexOf(text, piece) ==
    CHOOSE i \in 1..Len(text) :
        text[i] = piece /\ \A j \in 1..(i - 1) : text[j] # piece

Contains(text, piece) == \E i \in 1..Len(text) : text[i] = piece

\* the pieces of text strictly between the pieces open and close
Between(text, open, close) ==
    SubSeq(text, IndexOf(text, open) + 1, IndexOf(text, close) - 1)

\* listing is exactly the elements of elems, each once and in order,
\* separated by sep
Lists(listing, elems, sep) ==
    /\ Len(listing) = IF Len(elems) = 0 THEN 0 ELSE 2 * Len(elems) - 1
    /\ \A i \in 1..Len(elems) : listing[2 * i - 1] = elems[i]
    /\ \A i \in 1..(Len(elems) - 1) : listing[2 * i] = sep

\* C12: MissingDependencyError for a dependency that has skip records gives
\* the 'skipped module' text, not the 'undefined module' one, and that text
\* lists the filename and the reason of every skip record of the name, each
\* once and in registration order.
C12_SkippedDiagnosticListsAllRecords ==
    (last.op = "MissingDependencyError"
       /\ Len(SkipsOf(skippedModules, last.dependency)) >= 1)
    => LET recs == SkipsOf(skippedModules, last.dependency) IN
       /\ Contains(last.ret, " depends on skipped module ")
       /\ ~Contains(last.ret, " depends on undefined module ")
       /\ Lists(Between(last.ret, " was defined in files(s) [",
                        "], but was skipped for reason(s) ["),
                [i \in 1..Len(recs) |-> recs[i].filename], ", ")
       /\ Lists(SubSeq(last.ret,
                       IndexOf(last.ret, "], but was skipped for reason(s) [") + 1,
                       Len(last.ret) - 1),
                [i \in 1..Len(recs) |-> recs[i].reason], "; ")

C12_Witness ==
    /\ last.op = "MissingDependencyError"
    /\ Len(SkipsOf(skippedModules, last.dependency)) = 2
    /\ SkipsOf(skippedModules, last.dependency)[1]
         # SkipsOf(skippedModules, last.dependency)[2]
    /\ Contains(last.ret, "fileA.bp")
    /\ Contains(last.ret, "platform mismatch")

\* C13: MissingDependencyError for a dependency without skip records gives
\* the 'undefined module' text; it has a 'Did you mean' clause exactly when
\* the suggestion list is non-empty, and the clause then holds every
\* suggestion.
C13_UndefinedDiagnosticSuggestions ==
    (last.op = "MissingDependencyError"
       /\ Len(SkipsOf(skippedModules, last.dependency)) = 0)
    => /\ Contains(last.ret, " depends on undefined module ")
       /\ ~Contains(last.ret, " depends on skipped module ")
       /\ Contains(last.ret, " Did you mean ") <=> (Len(last.guess) > 0)
       /\ Len(last.guess) > 0
          => LET clause == SubSeq(last.ret, IndexOf(last.ret, " Did you mean ") + 1,
                                  Len(last.ret))
             IN \A i \in 1..Len(last.guess) : Contains(clause, last.guess[i])

C13_Witness ==
    /\ last.op = "MissingDependencyError"
    /\ Len(SkipsOf(skippedModules, last.dependency)) = 0
    /\ Len(last.guess) = 2
    /\ Contains(last.ret, " Did you mean ")
    /\ skippedModules # EmptyMap

\* the operations that only read
ReadOps == {"ModuleFromName", "SkippedModuleFromName", "MissingDependencyError",
            "AllModules", "GetNamespace", "UniqueName"}

\* the arguments of the call recorded in l
ArgsOf(l) ==
    CASE l.op = "ModuleFromName" -> <<l.name>>
      [] l.op = "SkippedModuleFromName" -> <<l.name>>
      [] l.op = "MissingDependencyError" -> <<l.depender, l.dependency, l.guess>>
      [] l.op = "AllModules" -> << >>
      [] l.op = "GetNamespace" -> <<l.ctx>>
      [] l.op = "UniqueName" -> <<l.ctx, l.name>>

\* C14: every read operation leaves the module table, the skip table and
\* every name field unchanged, and a read repeated with the same arguments
\* right after itself returns the same result.
C14_ReadsArePure ==
    [][ last'.op \in ReadOps
        => /\ modules' = modules
           /\ skippedModules' = skippedModules
           /\ name' = name
           /\ (last.op = last'.op /\ ArgsOf(last) = ArgsOf(last'))
              => last'.ret = last.ret ]_vars

C14_Witness ==
    /\ last.op = "SkippedModuleFromName"
    /\ ~last.ret.skipped
    /\ last.name # ""
    /\ skippedModules = EmptyMap
    /\ modules # EmptyMap

\* C15: no step removes a group from the module table; every group in it is
\* under exactly one key, the number of entries never decreases, and a name
\* stops being registered only as the old name of a successful Rename.
C15_NoDeletion ==
    [][ /\ Range(modules) \subseteq Range(modules')
        /\ \A g \in Range(modules') :
              Cardinality({ k \in DOMAIN modules' : modules'[k] = g }) = 1
        /\ Cardinality(DOMAIN modules') >= Cardinality(DOMAIN modules)
        /\ \A n \in (DOMAIN modules) \ (DOMAIN modules') :
              /\ last'.op = "Rename"
              /\ last'.errs = << >>
              /\ last'.oldName = n ]_vars

C15_Witness ==
    /\ last.op = "Rename"
    /\ last.errs = << >>
    /\ last.oldName \notin DOMAIN modules
    /\ Cardinality(DOMAIN modules) = 2
    /\ \E g \in Groups \ Range(modules) : name[g] = last.oldName

\* errs is the single 'conflicts with existing module' error of a rename of
\* oldName to newName, citing the first module of group g
IsConflictError(errs, oldName, newName, g) ==
    errs = << [format |-> "renaming module %q to %q conflicts with existing module\n       %s <-- existing module defined here",
               args |-> <<oldName, newName, firstModulePos(g)>>] >>

\* errs is the single 'doesn't exist' error
IsDoesntExistError(errs) ==
    /\ Len(errs) = 1
    /\ errs[1].format = "module %q to renamed to %q doesn't exist"

\* C17: Rename tests the target first: with the new name registered and the
\* old name not, it fails with the conflict error citing the first module
\* of the group registered under the new name; the 'doesn't exist' error is
\* returned exactly when neither name is registered.
C17_RenameChecksTargetFirst ==
    [][ last'.op = "Rename"
        => /\ (last'.newName \in DOMAIN modules /\ last'.oldName \notin DOMAIN modules)
              => IsConflictError(last'.errs, last'.oldName, last'.newName,
                                 modules[last'.newName])
           /\ IsDoesntExistError(last'.errs)
              <=> (last'.oldName \notin DOMAIN modules
                     /\ last'.newName \notin DOMAIN modules) ]_vars

C17_Witness ==
    /\ last.op = "Rename"
    /\ last.newName \in DOMAIN modules
    /\ last.oldName \notin DOMAIN modules
    /\ IsConflictError(last.errs, last.oldName, last.newName, modules[last.newName])
    /\ Cardinality(DOMAIN modules) >= 2

\* C18: Rename(A, A) of a registered name A returns the conflict error and
\* leaves the module table and the group's name field unchanged, so A still
\* looks up to the same group.
C18_RenameToSelfRejected ==
    [][ (/\ last'.op = "Rename"
         /\ last'.oldName = last'.newName
         /\ last'.oldName \in DOMAIN modules)
        => LET A == last'.oldName IN
           /\ IsConflictError(last'.errs, A, A, modules[A])
           /\ modules' = modules
           /\ name' = name
           /\ ModuleFromNameRet(modules', A) = [group |-> modules[A], found |-> TRUE] ]_vars

C18_Witness ==
    /\ last.op = "Rename"
    /\ last.oldName = last.newName
    /\ last.oldName \in DOMAIN modules
    /\ last.errs # << >>
    /\ name[modules[last.oldName]] = last.oldName

\* C19: every key of the module table maps to a group whose name field is
\* that key.
C19_KeyEqualsNameField ==
    \A k \in DOMAIN modules : name[modules[k]] = k

C19_Witness ==
    /\ last.op = "ModuleFromName"
    /\ last.ret.found
    /\ name[last.ret.group] = last.name
    /\ Cardinality(DOMAIN modules) >= 2
    /\ \E g \in Groups \ Range(modules) : name[g] \notin DOMAIN modules

\* C20: NewModule and Rename, failing or not, never change the skip table,
\* and NewSkippedModule never changes the module table or a name field; so
\* a successful rename leaves the skip records where they were.
C20_TablesIndependent ==
    [][ /\ last'.op \in {"NewModule", "Rename"}
           => skippedModules' = skippedModules
        /\ last'.op = "NewSkippedModule"
           => (modules' = modules /\ name' = name) ]_vars

C20_Witness ==
    /\ last.op = "NewModule"
    /\ last.errs = << >>
    /\ name[last.group] \in DOMAIN modules
    /\ name[last.group] \in DOMAIN skippedModules
    /\ \E n \in DOMAIN modules : n \notin DOMAIN skippedModules

\* the results the finished read rd can return when it runs alone on the
\* current registry
SequentialResults(rd) ==
    CASE rd.op = "ModuleFromName" ->
           { ModuleFromNameRet(modules, rd.moduleName) }
      [] rd.op = "SkippedModuleFromName" ->
           { SkippedModuleFromNameRet(skippedModules, rd.moduleName) }
      [] rd.op = "MissingDependencyError" ->
           { MissingDependencyErrorRet(skippedModules, rd.depender,
                                       rd.dependency, rd.guess) }
      [] rd.op = "AllModules" ->
           { AllModulesRet(ord) : ord \in KeyOrders(DOMAIN modules) }

\* C16: once registration has completed, under every interleaving of the
\* readers' steps the registry is never changed, every finished read has
\* the one result it has when run alone on that registry, and AllModules
\* does not panic.
C16_ConcurrentReadsAreSafe ==
    [][ last.op = "RegistrationCompleted"
        => /\ modules' = modules
           /\ skippedModules' = skippedModules
           /\ name' = name
           /\ \A r \in Readers :
                readers'[r].pc = "done"
                => /\ SequentialResults(readers'[r]) = { readers'[r].ret }
                   /\ readers'[r].op = "AllModules" => ~readers'[r].ret.panicked ]_vars

C16_Witness ==
    /\ last.op = "RegistrationCompleted"
    /\ readers["r1"].pc = "done"
    /\ readers["r1"].op = "AllModules"
    /\ Len(readers["r1"].ret.groups) >= 2
    /\ readers["r2"].pc = "MissingDependencyError.format"
    /\ readers["r2"].skipped

====
